---- MODULE Spec2Model ----
(***************************************************************************)
(* Model of the go-eCharger client (goecharger_api_lite.GoeCharger): the   *)
(* status translator _StatusMapper, the status-retrieval operations built  *)
(* on it and the set operations.                                           *)
(*                                                                         *)
(* Python values are tagged records [t, v]:                                *)
(*   int  [t |-> "int",  v |-> n]        str   [t |-> "str",  v |-> s]     *)
(*   list [t |-> "list", v |-> <<..>>]   None  [t |-> "none", v |-> 0]     *)
(*   float [t |-> "float", v |-> <<num, den>>]  (exact reduced quotient)   *)
(*   bool [t |-> "bool", v |-> TRUE or FALSE]                              *)
(*   dict [t |-> "dict", v |-> d]: the energy structure (d a record of     *)
(*        records) or a decoded JSON object that may also be null (d a     *)
(*        sequence of pairs)                                               *)
(* A Python dict with string keys is a sequence of <<key, value>> pairs in *)
(* insertion order, keys distinct.  A call's outcome is a record whose     *)
(* field raised is "" on a normal return and the exception's name when the *)
(* call raises.                                                            *)
(***************************************************************************)
EXTENDS Integers, Sequences, FiniteSets, TLC

VARIABLES
    op,        \* the operation last invoked on the client: [name, status_type]
               \* for a getter, [name, key, value] for a setter
    request,   \* the URL of the last HTTP GET issued: [path, filter] for a
               \* status request, [path, key, value] for a set request
    reply,     \* what the device (and the HTTP library) answered to it
    requests,  \* the URLs of all GETs the call issued, in order
    replies,   \* the answers to them, in order
    device_model,  \* GoeCharger.__device_model
    device,    \* the charger's own settings: [var, amp, ama]
    response,  \* _StatusMapper.__response after the operation (a dict)
    result,    \* what the operation returned or raised: [raised, value]
    decoded,   \* how many of the answers response.json() has decoded
    pc         \* how far the call has come: "idle" (no call under way),
               \* "get" (the GET of the operation's request waits in the
               \* event loop), "sent" (it is answered), "json"
               \* (response.json() runs), "returned" (the caller holds
               \* result); in set_ampere and set_absolute_max_current before
               \* these: "var_get", "var_sent", "var_json" (the same of the
               \* status request for "var"), "var_answered" (the answer is
               \* translated), "known" (__device_model is set)

vars ==
    <<op, request, reply, requests, replies, decoded, device_model, device,
      response, result, pc>>

----------------------------------------------------------------------------
(* Bounds of the model *)

\* most entries in a multi-entry raw status response
MaxEntries == 3
\* raw enum values range over -1 .. MaxEnumVal
MaxEnumVal == 25
\* nrg arrays have 0 .. MaxNrgLen elements
MaxNrgLen == 17
\* tma arrays have 0 .. MaxTmaLen elements
MaxTmaLen == 3

----------------------------------------------------------------------------
(* Python values *)

IntV(n) == [t |-> "int", v |-> n]
StrV(s) == [t |-> "str", v |-> s]
ListV(q) == [t |-> "list", v |-> q]
NoneV == [t |-> "none", v |-> 0]
DictV(r) == [t |-> "dict", v |-> r]
BoolV(b) == [t |-> "bool", v |-> b]

Abs(n) == IF n < 0 THEN -n ELSE n

RECURSIVE Gcd(_, _)
Gcd(a, b) == IF b = 0 THEN a ELSE Gcd(b, a % b)

\* the float num / den (den > 0), kept as the exact quotient in lowest terms
FloatV(num, den) ==
    LET g == Gcd(Abs(num), den)
    IN  [t |-> "float", v |-> <<num \div g, den \div g>>]

\* outcomes of a call
Return(x) == [raised |-> "", value |-> x]
Raise(exc) == [raised |-> exc, value |-> <<>>]

----------------------------------------------------------------------------
(* dict with str keys: a sequence of <<key, value>> in insertion order *)

Keys(d) == [i \in 1..Len(d) |-> d[i][1]]
KeySet(d) == {d[i][1] : i \in 1..Len(d)}
HasKey(d, k) == k \in KeySet(d)
DictGet(d, k) == d[CHOOSE i \in 1..Len(d) : d[i][1] = k][2]
\* d[k] = v : an existing key keeps its position, a new key goes last
DictSet(d, k, v) ==
    IF HasKey(d, k)
    THEN [i \in 1..Len(d) |-> IF d[i][1] = k THEN <<k, v>> ELSE d[i]]
    ELSE Append(d, <<k, v>>)

\* Every string the model uses as a dict key, in ascending order of Python's
\* str comparison (code point by code point, a proper prefix first).
StrOrder ==
    << "acu", "ama", "amp", "ampere", "ampere_allowed",
       "ampere_device_maximum", "cable_lock_mode", "car", "car_state",
       "charge_limit", "charging_mode", "device_model", "dwo", "energy",
       "err", "error", "fna", "frc", "nrg", "oem", "phase_mode", "psm",
       "temperature", "tma", "ust", "var" >>

Rank(s) == CHOOSE i \in 1..Len(StrOrder) : StrOrder[i] = s
\* a < b on str
StrLess(a, b) == Rank(a) < Rank(b)

\* one step of sorted(): put key k into the ascending sequence s
RECURSIVE Insert(_, _)
Insert(s, k) ==
    IF s = <<>> THEN <<k>>
    ELSE IF StrLess(k, Head(s)) THEN <<k>> \o s
    ELSE <<Head(s)>> \o Insert(Tail(s), k)

\* sorted(keys) on a sequence of str
RECURSIVE sorted(_)
sorted(s) == IF s = <<>> THEN <<>> ELSE Insert(sorted(Tail(s)), Head(s))

----------------------------------------------------------------------------
(* _StatusMapper: the enum tables *)

__mappings_car ==
    (0 :> StrV("Unknown/Error")) @@ (1 :> StrV("Idle")) @@
    (2 :> StrV("Charging")) @@ (3 :> StrV("WaitCar")) @@
    (4 :> StrV("Complete")) @@ (5 :> StrV("Error"))

\* the entries of __mappings_err other than that of code 0
ErrLabels ==
    (1 :> StrV("FiAc")) @@ (2 :> StrV("FiDc")) @@
    (3 :> StrV("Phase")) @@ (4 :> StrV("Overvolt")) @@
    (5 :> StrV("Overamp")) @@ (6 :> StrV("Diode")) @@
    (7 :> StrV("Ppinvalid")) @@ (8 :> StrV("GndInvalid")) @@
    (9 :> StrV("ContactorStuck")) @@ (10 :> StrV("ContactorMiss")) @@
    (11 :> StrV("FiUnknown")) @@ (12 :> StrV("Unknown")) @@
    (13 :> StrV("Overtemp")) @@ (14 :> StrV("NoComm")) @@
    (15 :> StrV("StatusLockStuckOpen")) @@
    (16 :> StrV("StatusLockStuckLocked")) @@
    (20 :> StrV("Reserved20")) @@ (21 :> StrV("Reserved21")) @@
    (22 :> StrV("Reserved22")) @@ (23 :> StrV("Reserved23")) @@
    (24 :> StrV("Reserved24"))

\* faulty variant: code 0 is given a label like every other code
mappings_err_zero_label == (0 :> StrV("None")) @@ ErrLabels

__mappings_err == (0 :> NoneV) @@ ErrLabels

__mappings_frc ==
    (0 :> StrV("neutral")) @@ (1 :> StrV("off")) @@ (2 :> StrV("on"))

__mappings_psm ==
    (0 :> StrV("auto")) @@ (1 :> StrV("one")) @@ (2 :> StrV("three"))

__mappings_ust ==
    (0 :> StrV("unlock car first")) @@ (1 :> StrV("automatic")) @@
    (2 :> StrV("locked"))

__mappings_var ==
    (11 :> StrV("11KW/16A")) @@ (22 :> StrV("22KW/32A"))

\* faulty variant: table.get(value, value), a miss hands back the raw value
LookupOrRaw(table, value) ==
    IF value.t = "list" THEN Raise("TypeError")
    ELSE IF value.t = "int" /\ value.v \in DOMAIN table
         THEN Return(table[value.v])
    ELSE Return(value)

\* table[value] on a dict with int keys: KeyError on a miss, TypeError on an
\* unhashable (list) key
Lookup(table, value) ==
    IF value.t = "list" THEN Raise("TypeError")
    ELSE IF value.t = "int" /\ value.v \in DOMAIN table
         THEN Return(table[value.v])
    ELSE Raise("KeyError")

----------------------------------------------------------------------------
(* _StatusMapper.__map_element *)

\* value[0] .. value[n-1] can all be read ("") or the first read that cannot
\* raises.  value[i] (Python index, from 0): IndexError past the end of a list or str,
\* TypeError on a value that cannot be subscripted.  The strs of this model
\* are all shorter than 15 characters, so no nrg index set of a str succeeds.

\* faulty variant: a list of any length other than n is refused
SubscriptableExactly(value, n) ==
    IF value.t = "list" THEN (IF Len(value.v) = n THEN "" ELSE "IndexError")
    ELSE IF value.t = "str" THEN "IndexError"
    ELSE "TypeError"

Subscriptable(value, n) ==
    IF value.t = "list" THEN (IF Len(value.v) >= n THEN "" ELSE "IndexError")
    ELSE IF value.t = "str" THEN "IndexError"
    ELSE "TypeError"

At(value, i) == value.v[i + 1]

\* faulty variant: the current readings are taken one index too early
energy_current_shifted(value) ==
    DictV([voltage |-> [L1 |-> At(value, 0), L2 |-> At(value, 1),
                        L3 |-> At(value, 2), N |-> At(value, 3)],
           current |-> [L1 |-> At(value, 3), L2 |-> At(value, 4),
                        L3 |-> At(value, 5)],
           power |-> [L1 |-> At(value, 7), L2 |-> At(value, 8),
                      L3 |-> At(value, 9), N |-> At(value, 10),
                      total |-> At(value, 11)],
           power_factor |-> [L1 |-> At(value, 12), L2 |-> At(value, 13),
                             L3 |-> At(value, 14)]])

\* the nested dict built for "nrg" from value[0] .. value[14]
energy(value) ==
    DictV([voltage |-> [L1 |-> At(value, 0), L2 |-> At(value, 1),
                        L3 |-> At(value, 2), N |-> At(value, 3)],
           current |-> [L1 |-> At(value, 4), L2 |-> At(value, 5),
                        L3 |-> At(value, 6)],
           power |-> [L1 |-> At(value, 7), L2 |-> At(value, 8),
                      L3 |-> At(value, 9), N |-> At(value, 10),
                      total |-> At(value, 11)],
           power_factor |-> [L1 |-> At(value, 12), L2 |-> At(value, 13),
                             L3 |-> At(value, 14)]])

\* sum(value) on a sequence of ints
RECURSIVE sum(_)
sum(q) == IF q = <<>> THEN 0 ELSE Head(q) + sum(Tail(q))

\* faulty variant: sum(value)/len(value) without the guard on len(value)
temperature_unguarded(value) ==
    IF value.t = "list"
    THEN (IF Len(value.v) > 0
          THEN Return(FloatV(sum(value.v), Len(value.v)))
          ELSE Raise("ZeroDivisionError"))
    ELSE Raise("TypeError")

\* sum(value)/len(value) if len(value) > 0 else None
temperature(value) ==
    IF value.t = "list"
    THEN (IF Len(value.v) > 0
          THEN Return(FloatV(sum(value.v), Len(value.v)))
          ELSE Return(NoneV))
    ELSE IF value.t = "str"
    THEN (IF value.v = "" THEN Return(NoneV) ELSE Raise("TypeError"))
    ELSE Raise("TypeError")

\* a (name, value) tuple returned, or the exception raised
Mapped(name, r) ==
    IF r.raised = ""
    THEN [raised |-> "", name |-> name, value |-> r.value]
    ELSE [raised |-> r.raised, name |-> name, value |-> NoneV]

\* faulty variant: a code without a rule is refused
PassThroughRefused(name, value) == Mapped(name, Raise("KeyError"))

\* case _: return name, value
PassThrough(name, value) == Mapped(name, Return(value))

__map_element(element) ==
    LET name == element[1]
        value == element[2]
    IN  CASE name = "acu" -> Mapped("ampere", Return(value))
          [] name = "ama" -> Mapped("ampere_device_maximum", Return(value))
          [] name = "amp" -> Mapped("ampere_allowed", Return(value))
          [] name = "car" -> Mapped("car_state", Lookup(__mappings_car, value))
          [] name = "dwo" -> Mapped("charge_limit", Return(value))
          [] name = "err" -> Mapped("error", Lookup(__mappings_err, value))
          [] name = "frc" ->
                Mapped("charging_mode", Lookup(__mappings_frc, value))
          [] name = "nrg" ->
                IF Subscriptable(value, 15) = ""
                THEN Mapped("energy", Return(energy(value)))
                ELSE Mapped("energy", Raise(Subscriptable(value, 15)))
          [] name = "psm" -> Mapped("phase_mode", Lookup(__mappings_psm, value))
          [] name = "tma" -> Mapped("temperature", temperature(value))
          [] name = "ust" ->
                Mapped("cable_lock_mode", Lookup(__mappings_ust, value))
          [] name = "var" ->
                Mapped("device_model", Lookup(__mappings_var, value))
          [] OTHER -> PassThrough(name, value)

----------------------------------------------------------------------------
(* _StatusMapper.__order_dict and map_status_response *)

\* faulty variant: the dict is handed back in its insertion order
order_dict_unsorted(dict_to_order) == dict_to_order

\* OrderedDict filled in the order of sorted(dict_to_order.keys())
__order_dict(dict_to_order) ==
    LET ks == sorted(Keys(dict_to_order))
    IN  [i \in 1..Len(ks) |-> <<ks[i], DictGet(dict_to_order, ks[i])>>]

\* faulty variant: an element that raises is left out and the loop goes on
RECURSIVE MapItemsSkipping(_, _)
MapItemsSkipping(items, mapped_response) ==
    IF items = <<>> THEN Return(mapped_response)
    ELSE LET m == __map_element(Head(items))
         IN  IF m.raised # ""
             THEN MapItemsSkipping(Tail(items), mapped_response)
             ELSE MapItemsSkipping(Tail(items),
                                   DictSet(mapped_response, m.name, m.value))

\* the for loop over self.__response.items(): the first element that raises
\* ends the call
RECURSIVE MapItems(_, _)
MapItems(items, mapped_response) ==
    IF items = <<>> THEN Return(mapped_response)
    ELSE LET m == __map_element(Head(items))
         IN  IF m.raised # "" THEN Raise(m.raised)
             ELSE MapItems(Tail(items),
                           DictSet(mapped_response, m.name, m.value))

\* the call's outcome, and self.__response as the call leaves it
map_status_response(self_response) ==
    LET r == MapItems(self_response, <<>>)
    IN  [response |-> self_response,
         outcome |-> IF r.raised = "" THEN Return(__order_dict(r.value))
                     ELSE r]

----------------------------------------------------------------------------
(* The _StatusMapper of the package variant goecharger (goecharger.py): it  *)
(* has no rule for "dwo" and "ust"; its tables and its __order_dict are     *)
(* those above, word for word.                                              *)

\* faulty variant: the rule of "amp" is missing as well
goecharger_map_element_no_amp(element) ==
    LET name == element[1]
        value == element[2]
    IN  CASE name = "acu" -> Mapped("ampere", Return(value))
          [] name = "ama" -> Mapped("ampere_device_maximum", Return(value))
          [] name = "car" -> Mapped("car_state", Lookup(__mappings_car, value))
          [] name = "err" -> Mapped("error", Lookup(__mappings_err, value))
          [] name = "frc" ->
                Mapped("charging_mode", Lookup(__mappings_frc, value))
          [] name = "nrg" ->
                IF Subscriptable(value, 15) = ""
                THEN Mapped("energy", Return(energy(value)))
                ELSE Mapped("energy", Raise(Subscriptable(value, 15)))
          [] name = "psm" -> Mapped("phase_mode", Lookup(__mappings_psm, value))
          [] name = "tma" -> Mapped("temperature", temperature(value))
          [] name = "var" ->
                Mapped("device_model", Lookup(__mappings_var, value))
          [] OTHER -> PassThrough(name, value)

\* goecharger.py's __map_element
goecharger_map_element(element) ==
    LET name == element[1]
        value == element[2]
    IN  CASE name = "acu" -> Mapped("ampere", Return(value))
          [] name = "ama" -> Mapped("ampere_device_maximum", Return(value))
          [] name = "amp" -> Mapped("ampere_allowed", Return(value))
          [] name = "car" -> Mapped("car_state", Lookup(__mappings_car, value))
          [] name = "err" -> Mapped("error", Lookup(__mappings_err, value))
          [] name = "frc" ->
                Mapped("charging_mode", Lookup(__mappings_frc, value))
          [] name = "nrg" ->
                IF Subscriptable(value, 15) = ""
                THEN Mapped("energy", Return(energy(value)))
                ELSE Mapped("energy", Raise(Subscriptable(value, 15)))
          [] name = "psm" -> Mapped("phase_mode", Lookup(__mappings_psm, value))
          [] name = "tma" -> Mapped("temperature", temperature(value))
          [] name = "var" ->
                Mapped("device_model", Lookup(__mappings_var, value))
          [] OTHER -> PassThrough(name, value)

\* goecharger.py's for loop over self.__response.items()
RECURSIVE goecharger_MapItems(_, _)
goecharger_MapItems(items, mapped_response) ==
    IF items = <<>> THEN Return(mapped_response)
    ELSE LET m == goecharger_map_element(Head(items))
         IN  IF m.raised # "" THEN Raise(m.raised)
             ELSE goecharger_MapItems(Tail(items),
                                      DictSet(mapped_response, m.name, m.value))

\* goecharger.py's map_status_response
goecharger_map_status_response(self_response) ==
    LET r == goecharger_MapItems(self_response, <<>>)
    IN  [response |-> self_response,
         outcome |-> IF r.raised = "" THEN Return(__order_dict(r.value))
                     ELSE r]

----------------------------------------------------------------------------
(* The device and the HTTP library, as the client sees them *)

\* the field codes _StatusMapper has a dispatch rule for
KnownCodes ==
    {"acu", "ama", "amp", "car", "dwo", "err", "frc", "nrg", "psm", "tma",
     "ust", "var"}

\* an array of n readings start, start + 1, ...
Ramp(n, start) == [i \in 1..n |-> start + i - 1]

\* the entries multi-entry responses are made of: for each known code a
\* value its rule accepts, for car, err and nrg also one it does not, and
\* four codes without a rule, two of them equal to a semantic name
Items ==
    { <<"acu", IntV(6)>>, <<"ama", IntV(16)>>, <<"amp", IntV(6)>>,
      <<"car", IntV(2)>>, <<"car", IntV(6)>>, <<"dwo", NoneV>>,
      <<"err", IntV(0)>>, <<"err", IntV(17)>>, <<"frc", IntV(1)>>,
      <<"nrg", ListV(Ramp(15, 230))>>, <<"nrg", ListV(Ramp(14, 230))>>,
      <<"psm", IntV(1)>>, <<"tma", ListV(<<20, 22, 24>>)>>,
      <<"ust", IntV(1)>>, <<"var", IntV(22)>>,
      <<"fna", StrV("go-eCharger")>>, <<"oem", StrV("go-e")>>,
      <<"ampere", IntV(7)>>, <<"error", StrV("x")>> }

\* dicts of n entries over Items, in every insertion order
DictsOf(n) ==
    { d \in [1..n -> Items] :
        \A i, j \in 1..n : i < j => d[i][1] # d[j][1] }

EnumCodes == {"car", "err", "frc", "psm", "ust", "var"}

\* sequences over S of length 0 .. n
RECURSIVE SeqsUpTo(_, _)
SeqsUpTo(S, n) ==
    IF n = 0 THEN {<<>>}
    ELSE LET shorter == SeqsUpTo(S, n - 1)
         IN  shorter \cup
             {Append(q, x) : q \in {r \in shorter : Len(r) = n - 1}, x \in S}

TmaReadings == {-5, 20, 23}

\* the entries of the one-entry responses: every enum field with every raw
\* value, nrg arrays of every length, tma arrays, values of other types
DeepItems ==
    { <<c, IntV(n)>> : c \in EnumCodes, n \in -1..MaxEnumVal }
    \cup { <<c, x>> : c \in EnumCodes,
                      x \in {StrV("1"), NoneV, ListV(<<1>>)} }
    \cup { <<"nrg", ListV(Ramp(n, s))>> : n \in 0..MaxNrgLen, s \in {0, 230} }
    \cup { <<"nrg", x>> : x \in {IntV(0), NoneV, StrV("")} }
    \cup { <<"tma", ListV(q)>> : q \in SeqsUpTo(TmaReadings, MaxTmaLen) }
    \cup { <<"tma", x>> : x \in {IntV(20), NoneV, StrV("")} }
    \cup { <<"fna", x>> : x \in {IntV(17), NoneV, ListV(<<1, 2>>)} }

\* the JSON objects the device may send as a status
Bodies ==
    UNION {DictsOf(n) : n \in 0..MaxEntries}
    \cup { <<item>> : item \in DeepItems }

\* The device answers a filtered status request with entries for requested
\* codes only (any of them, in any order, with any value), and an unfiltered
\* one with any status.
StatusBodies(filter_elements) ==
    IF filter_elements = <<>> THEN Bodies
    ELSE { b \in Bodies :
             KeySet(b) \subseteq
                {filter_elements[i] : i \in 1..Len(filter_elements)} }

\* what a GET ends in: the transport's outcome, the HTTP status, the outcome
\* of decoding the body, the decoded body
Reply(transport, status, content, body) ==
    [transport |-> transport, status |-> status, content |-> content,
     body |-> body]

\* the replies that are not a decoded 200 answer carry one of two bodies
FailedReplies ==
    { Reply("ClientError", 0, "json", <<>>),
      Reply("TimeoutError", 0, "json", <<>>) }
    \cup { Reply("ok", s, c, b) :
             s \in {200, 404, 500, 503},
             c \in {"ContentTypeError", "JSONDecodeError"},
             b \in {<<>>} }
    \cup { Reply("ok", s, "json", b) :
             s \in {404, 500, 503},
             b \in {<<>>, << <<"err", IntV(17)>> >>, << <<"car", IntV(2)>> >>} }

StatusReplies(filter_elements) ==
    { Reply("ok", 200, "json", b) : b \in StatusBodies(filter_elements) }
    \cup FailedReplies

----------------------------------------------------------------------------
(* GoeCharger *)

STATUS_FULL == <<>>
STATUS_MINIMUM == <<"car", "err", "frc">>
STATUS_DEFAULT ==
    <<"acu", "ama", "car", "dwo", "err", "frc", "nrg", "psm", "tma", "ust",
      "var">>

\* the URL of a status request: its path and the codes of its ?filter=
\* (none when filter_elements is empty).  A single str key is the 1-tuple
\* of it.
__create_status_request(filter_elements) ==
    [path |-> "/api/status", filter |-> filter_elements]

\* response.raise_for_status()
raise_for_status(status) == IF status >= 400 THEN "ClientResponseError" ELSE ""

__send_request(rep, ignore_server_error) ==
    IF rep.transport = "ClientError" THEN Raise("GoeChargerError")
    ELSE IF rep.transport # "ok" THEN Raise(rep.transport)
    ELSE IF rep.status = 404 THEN Raise("GoeChargerError")
    ELSE IF rep.status # 500 /\ ~ignore_server_error
            /\ raise_for_status(rep.status) # ""
         THEN Raise("GoeChargerError")
    ELSE IF rep.content = "ContentTypeError" THEN Raise("GoeChargerError")
    ELSE IF rep.content # "json" THEN Raise(rep.content)
    ELSE Return(rep.body)

\* the call's outcome, and the mapper's __response as the call leaves it
\* (no mapper is built when the request raises)
__get_status(rep) ==
    LET sent == __send_request(rep, FALSE)
    IN  IF sent.raised # ""
        THEN [response |-> <<>>, outcome |-> sent]
        ELSE map_status_response(sent.value)
----------------------------------------------------------------------------
(* GoeCharger: the set operations *)

\* json.dumps(value, separators=(',', ':')): the JSON text, kept as its kind
\* and its content
json_dumps(value) ==
    CASE value.t = "int" -> [t |-> "json_int", v |-> value.v]
      [] value.t = "float" -> [t |-> "json_float", v |-> value.v]
      [] value.t = "str" -> [t |-> "json_str", v |-> value.v]
      [] value.t = "none" -> [t |-> "json_null", v |-> 0]

\* the URL of a set request: /api/set?<key>=<value as JSON>
__create_key_set_request(key, value) ==
    [path |-> "/api/set", key |-> key, value |-> json_dumps(value)]

\* response.get(key) on a decoded JSON object
dict_get(d, key) == IF HasKey(d, key) THEN DictGet(d, key) ELSE NoneV

\* __set_key, given the answer to its request: raises unless the decoded
\* response is an object in which key is the bool true (a decoded response
\* that is neither an object nor null has no get)
__set_key(key, rep) ==
    LET sent == __send_request(rep, TRUE)
    IN  IF sent.raised # "" THEN sent
        ELSE IF sent.value.t = "none" THEN Raise("GoeChargerError")
        ELSE IF sent.value.t # "dict" THEN Raise("AttributeError")
        ELSE IF dict_get(sent.value.v, key) = BoolV(TRUE)
             THEN Return(NoneV)
        ELSE Raise("GoeChargerError")

\* the decimal strs of the model and the ints they spell
IntOfStr == ("16" :> 16) @@ ("17" :> 17)

\* int(value), as the setters call it for a value that is not an int
int(value) ==
    IF value.t = "str"
    THEN (IF value.v \in DOMAIN IntOfStr
          THEN Return(IntV(IntOfStr[value.v]))
          ELSE Raise("ValueError"))
    ELSE Raise("TypeError")

\* float(value), as set_charge_limit calls it for a value that is neither a
\* float nor None
float(value) ==
    IF value.t = "int" THEN Return(FloatV(value.v, 1))
    ELSE IF value.t = "str"
    THEN (IF value.v \in DOMAIN IntOfStr
          THEN Return(FloatV(IntOfStr[value.v], 1))
          ELSE Raise("ValueError"))
    ELSE Raise("TypeError")

----------------------------------------------------------------------------
(* A call, step by step.  Every self.__run_async(...) is a run of the event *)
(* loop (run_until_complete, line 290) that blocks the caller until the     *)
(* coroutine is done: the GET of a request is one, the response.json() that *)
(* decodes its answer another.  The client starts no thread and holds no    *)
(* lock; its operations are called one after the other, each returning      *)
(* before the next begins.                                                  *)

\* a call as far as it has come: where it stands, the operation, the GETs it
\* has issued, the answers to them, how many of the answers response.json()
\* has decoded, the mapper's __response, the outcome
Call(at, o, reqs, reps, dec, rs, rt) ==
    [pc |-> at, op |-> o, requests |-> reqs, replies |-> reps,
     decoded |-> dec, response |-> rs, result |-> rt]

\* no call under way: nothing requested, nothing held
NoCall ==
    Call("idle", [name |-> "", status_type |-> <<>>], <<>>, <<>>, 0, <<>>,
         Return(<<>>))

\* the operation o is called
New(o) == [NoCall EXCEPT !.op = o]

\* the call c ends: it raises or returns outcome
Ended(c, outcome) == [c EXCEPT !.pc = "returned", !.result = outcome]

\* the call c issues the GET req and stands at `at` while it waits
Asked(c, at, req) == [c EXCEPT !.pc = at, !.requests = Append(@, req)]

\* the first try block of __send_request: the exception the GET and the
\* checks of its status end in, "" when there is none; the response is not
\* decoded yet
get(rep, ignore_server_error) ==
    __send_request([rep EXCEPT !.content = "json"], ignore_server_error).raised

\* ignore_server_error of the request the call c has issued last: set by
\* __set_key, not by __get_status
ignores(c) == c.requests[Len(c.requests)].path = "/api/set"

\* faulty variant: a GET that fails is sent once more
get_answered_retrying(c, rep) ==
    LET got == [c EXCEPT !.replies = Append(@, rep)]
    IN  IF get(rep, ignores(c)) # ""
        THEN Ended([got EXCEPT
                      !.requests = Append(@, c.requests[Len(c.requests)]),
                      !.replies = Append(@, rep)],
                   Raise(get(rep, ignores(c))))
        ELSE [got EXCEPT
                !.pc = IF c.pc = "var_get" THEN "var_sent" ELSE "sent"]

\* the GET of the call c is answered by rep: the run of the event loop ends,
\* __send_request checks the status and raises or goes on
get_answered(c, rep) ==
    LET got == [c EXCEPT !.replies = Append(@, rep)]
    IN  IF get(rep, ignores(c)) # ""
        THEN Ended(got, Raise(get(rep, ignores(c))))
        ELSE [got EXCEPT
                !.pc = IF c.pc = "var_get" THEN "var_sent" ELSE "sent"]

\* __send_request goes on to self.__run_async(response.json())
json_entered(c) ==
    [c EXCEPT !.pc = IF c.pc = "var_sent" THEN "var_json" ELSE "json"]

\* the answers decoded once response.json() has run on the last answer of c
decoded_then(c) ==
    IF __send_request(c.replies[Len(c.replies)], ignores(c)).raised = ""
    THEN c.decoded + 1
    ELSE c.decoded

\* a status operation: the GET of its request
status_begin(o) ==
    Asked(New(o), "get", __create_status_request(o.status_type))

\* response.json() of a status operation has run: the answer is translated
\* and returned, the mapper keeps the raw response
status_answered(c) ==
    LET r == __get_status(c.replies[Len(c.replies)])
    IN  [Ended(c, r.outcome) EXCEPT !.response = r.response,
                                    !.decoded = decoded_then(c)]

\* self.__set_key(key, value): the GET of the set request
set_begin(c, value) ==
    Asked(c, "get", __create_key_set_request(c.op.key, value))

\* response.json() of a set operation has run: __set_key looks at the answer
set_answered(c) ==
    [Ended(c, __set_key(c.op.key, c.replies[Len(c.replies)]))
        EXCEPT !.decoded = decoded_then(c)]

\* response.json() of the operation's own request has run
json_answered(c) ==
    IF ignores(c) THEN set_answered(c) ELSE status_answered(c)

\* self.get_status("var")["device_model"]: the label, or the exception
var_device_model(var_rep) ==
    LET r == __get_status(var_rep).outcome
    IN  IF r.raised # "" THEN r
        ELSE IF HasKey(r.value, "device_model")
             THEN Return(DictGet(r.value, "device_model").v)
        ELSE Raise("KeyError")

\* self.__device_model.find("11") on the labels of __mappings_var
find_11(model) == IF model = "11KW/16A" THEN 0 ELSE -1

\* the value of set_ampere / set_absolute_max_current after the check of its
\* type: the int, or the exception of int(value)
ampere(value) == IF value.t = "int" THEN Return(value) ELSE int(value)

\* faulty variant: the device model is asked for on every call
ampere_begin_uncached(o, self_device_model) ==
    LET conv == ampere(o.value)
        asked == Asked(New(o), "var_get", __create_status_request(<<"var">>))
    IN  IF conv.raised = "ValueError"
        THEN Ended(New(o), Raise("GoeChargerError"))
        ELSE IF conv.raised # "" THEN Ended(New(o), conv)
        ELSE asked

\* set_ampere / set_absolute_max_current up to the GET for the device model:
\* the check of the value's type, the look at __device_model, and, when no
\* model is remembered, the status request for "var"
ampere_begin(o, self_device_model) ==
    LET conv == ampere(o.value)
        asked == Asked(New(o), "var_get", __create_status_request(<<"var">>))
    IN  IF conv.raised = "ValueError"
        THEN Ended(New(o), Raise("GoeChargerError"))
        ELSE IF conv.raised # "" THEN Ended(New(o), conv)
        ELSE IF self_device_model # "" THEN [New(o) EXCEPT !.pc = "known"]
        ELSE asked

\* response.json() of the status request for "var" has run: the answer is
\* translated, the mapper keeps it; the call goes on when it holds a device
\* model
ampere_var_answered(c) ==
    LET got == __get_status(c.replies[1])
        label == var_device_model(c.replies[1])
        held == [c EXCEPT !.response = got.response,
                          !.decoded = decoded_then(c)]
    IN  IF label.raised # "" THEN Ended(held, label)
        ELSE [held EXCEPT !.pc = "var_answered"]

\* self.__device_model = ...: the value assigned
ampere_model(c) == var_device_model(c.replies[1]).value

\* faulty variant: the check against the 16 A of an 11 kW charger is missing
ampere_send_unchecked(c, self_device_model) ==
    set_begin(c, ampere(c.op.value).value)

\* with a device model in __device_model: the check of the value against
\* it, and the GET of the set request
ampere_send(c, self_device_model) ==
    IF find_11(self_device_model) # -1 /\ ampere(c.op.value).value.v > 16
    THEN Ended(c, Raise("GoeChargerError"))
    ELSE set_begin(c, ampere(c.op.value).value)

\* set_charge_limit up to the GET of its set request
charge_limit_setter(o) ==
    LET conv == IF o.value.t \in {"float", "none"}
                THEN Return(o.value) ELSE float(o.value)
    IN  IF conv.raised = "ValueError"
        THEN Ended(New(o), Raise("GoeChargerError"))
        ELSE IF conv.raised # "" THEN Ended(New(o), conv)
        ELSE set_begin(New(o), conv.value)

\* set_key, set_charging_mode, set_phase_mode, set_cable_lock_mode up to the
\* GET of the set request
plain_setter(o) == set_begin(New(o), o.value)

----------------------------------------------------------------------------
(* The charger, as the set operations see it *)

\* the decoded bodies a set request for key may be answered with: null, a
\* JSON array, and objects without the key, with another key, with the key
\* true, false, 1 and "true"
SetBodies(key) ==
    { NoneV, ListV(<<1>>), DictV(<<>>),
      DictV(<< <<(IF key = "amp" THEN "ama" ELSE "amp"), BoolV(TRUE)>> >>) }
    \cup { DictV(<< <<key, x>> >>) :
             x \in {BoolV(TRUE), BoolV(FALSE), IntV(1), StrV("true")} }

SetReplies(key) ==
    { Reply("ok", 200, "json", b) : b \in SetBodies(key) }
    \cup { Reply("ok", st, "json", DictV(<< <<key, x>> >>)) :
             st \in {404, 500, 503}, x \in {BoolV(TRUE), BoolV(FALSE)} }
    \cup { Reply("ClientError", 0, "json", NoneV),
           Reply("TimeoutError", 0, "json", NoneV) }
    \cup { Reply("ok", 200, c, NoneV) :
             c \in {"ContentTypeError", "JSONDecodeError"} }

\* the answers to the status request for "var": the charger's variant, an
\* undocumented variant, no entry, or a failure
VarReplies ==
    { Reply("ok", st, "json", b) :
        st \in {200, 500},
        b \in { << <<"var", IntV(device.var)>> >>, << <<"var", IntV(16)>> >>,
                <<>> } }
    \cup { Reply("ok", st, "json", << <<"var", IntV(device.var)>> >>) :
             st \in {404, 503} }
    \cup { Reply("ClientError", 0, "json", <<>>),
           Reply("TimeoutError", 0, "json", <<>>) }
    \cup { Reply("ok", 200, c, <<>>) :
             c \in {"ContentTypeError", "JSONDecodeError"} }

\* the charger takes a value over when it echoes the key of a set request
\* with true
Accepted(req, rep) ==
    /\ req.path = "/api/set"
    /\ rep.transport = "ok" /\ rep.content = "json"
    /\ rep.body.t = "dict"
    /\ dict_get(rep.body.v, req.key) = BoolV(TRUE)

RECURSIVE ChargerAfter(_, _, _)
ChargerAfter(dev, reqs, reps) ==
    IF reqs = <<>> THEN dev
    ELSE LET req == Head(reqs)
             next == IF Accepted(req, Head(reps)) /\ req.key = "amp"
                        /\ req.value.t = "json_int"
                     THEN [dev EXCEPT !.amp = IntV(req.value.v)]
                     ELSE IF Accepted(req, Head(reps)) /\ req.key = "ama"
                             /\ req.value.t = "json_int"
                     THEN [dev EXCEPT !.ama = IntV(req.value.v)]
                     ELSE dev
         IN  ChargerAfter(next, Tail(reqs), Tail(reps))

\* the charger after the call `from` has got on to `to`: it has taken over
\* what a set request answered in this step asked for
ChargerSeeing(dev, from, to) ==
    IF Len(to.replies) > Len(from.replies)
    THEN ChargerAfter(dev, <<to.requests[Len(from.replies) + 1]>>,
                      <<to.replies[Len(from.replies) + 1]>>)
    ELSE dev

\* a charger of the 11 kW or the 22 kW variant with its factory settings
Charger(var) ==
    [var |-> var, amp |-> IntV(6), ama |-> IntV(IF var = 11 THEN 16 ELSE 32)]

----------------------------------------------------------------------------
(* GoeCharger: the status-retrieval operations *)

\* the call under way as far as it has come
Mine == Call(pc, op, requests, replies, decoded, response, result)

\* the call gets on to c, with model in __device_model
Step(c, model) ==
    /\ pc' = c.pc
    /\ op' = c.op
    /\ requests' = c.requests
    /\ replies' = c.replies
    /\ request' = IF c.requests = <<>> THEN request
                  ELSE c.requests[Len(c.requests)]
    /\ reply' = IF c.replies = <<>> THEN reply
                ELSE c.replies[Len(c.replies)]
    /\ decoded' = c.decoded
    /\ response' = c.response
    /\ result' = c.result
    /\ device_model' = model
    /\ device' = ChargerSeeing(device, Mine, c)

\* a status-retrieval operation is called: the GET of its request goes out
StatusCall(name, status_type) ==
    /\ pc = "idle"
    /\ Step(status_begin([name |-> name, status_type |-> status_type]),
            device_model)

StatusTypes ==
    {STATUS_FULL, STATUS_MINIMUM, STATUS_DEFAULT, <<"fna", "oem">>, <<"var">>}

get_status == \E status_type \in StatusTypes : StatusCall("get_status", status_type)
get_ampere == StatusCall("get_ampere", <<"amp">>)
get_charging_mode == StatusCall("get_charging_mode", <<"frc">>)
get_phase_mode == StatusCall("get_phase_mode", <<"psm">>)
get_absolute_max_current == StatusCall("get_absolute_max_current", <<"ama">>)
get_cable_lock_mode == StatusCall("get_cable_lock_mode", <<"ust">>)
get_charge_limit == StatusCall("get_charge_limit", <<"dwo">>)

\* the GET of the operation's own request is answered by one of
\* device_replies
get_returns(device_replies) ==
    /\ pc = "get"
    /\ \E rep \in device_replies :
        Step(get_answered(Mine, rep), device_model)

\* the call goes on to decode the answer
json_begins ==
    /\ pc = "sent"
    /\ Step(json_entered(Mine), device_model)

\* the answer is decoded, the operation returns or raises
json_returns ==
    /\ pc = "json"
    /\ Step(json_answered(Mine), device_model)

\* no call under way: nothing requested, nothing held
Idle(o, rq, rp, rs, rt, p) ==
    /\ o = [name |-> "", status_type |-> <<>>]
    /\ rq = [path |-> "", filter |-> <<>>]
    /\ rp = Reply("", 0, "", <<>>)
    /\ rs = <<>>
    /\ rt = Return(<<>>)
    /\ p = "idle"

\* the caller is done with what the call returned or raised: the raw and the
\* translated response live for one call only; the client keeps
\* __device_model, the charger its settings
Discard ==
    /\ pc = "returned"
    /\ Idle(op', request', reply', response', result', pc')
    /\ requests' = <<>>
    /\ replies' = <<>>
    /\ decoded' = 0
    /\ UNCHANGED <<device_model, device>>

\* the client as __init__ leaves it, in front of a 22 kW charger
Init ==
    /\ Idle(op, request, reply, response, result, pc)
    /\ requests = <<>>
    /\ replies = <<>>
    /\ decoded = 0
    /\ device_model = ""
    /\ device = Charger(22)

\* the GET of a status operation is answered with any status the device may
\* send for it, or fails
status_get_returns == get_returns(StatusReplies(request.filter))

Next ==
    \/ get_status
    \/ get_ampere
    \/ get_charging_mode
    \/ get_phase_mode
    \/ get_absolute_max_current
    \/ get_cable_lock_mode
    \/ get_charge_limit
    \/ status_get_returns
    \/ json_begins
    \/ json_returns
    \/ Discard

\* the status-retrieval operations, every call step by step
Spec == Init /\ [][Next]_vars

\* a set operation with its arguments
SetOp(name, key, value) == [name |-> name, key |-> key, value |-> value]

\* the arguments the model calls set_ampere and set_absolute_max_current with
AmpereArgs ==
    { IntV(n) : n \in {5, 6, 17, 33} }
    \cup { StrV("17"), StrV("abc"), NoneV }

\* set_ampere (key "amp") and set_absolute_max_current (key "ama"), the same
\* code but for the key, are called
ampere_setter(name, key) ==
    /\ pc = "idle"
    /\ \E value \in AmpereArgs :
        Step(ampere_begin(SetOp(name, key, value), device_model),
             device_model)

set_ampere == ampere_setter("set_ampere", "amp")

set_absolute_max_current == ampere_setter("set_absolute_max_current", "ama")

\* the GET of the status request for "var" is answered
var_get_returns ==
    /\ pc = "var_get"
    /\ \E var_rep \in VarReplies :
        Step(get_answered(Mine, var_rep), device_model)

\* the call goes on to decode the answer to the status request for "var"
var_json_begins ==
    /\ pc = "var_sent"
    /\ Step(json_entered(Mine), device_model)

\* the answer to the status request for "var" is decoded and translated
var_json_returns ==
    /\ pc = "var_json"
    /\ Step(ampere_var_answered(Mine), device_model)

\* self.__device_model = self.get_status("var")["device_model"]
device_model_assigned ==
    /\ pc = "var_answered"
    /\ Step([Mine EXCEPT !.pc = "known"], ampere_model(Mine))

\* the value is checked against the device model and the set request goes
\* out
ampere_sends ==
    /\ pc = "known"
    /\ Step(ampere_send(Mine, device_model), device_model)

set_key ==
    /\ pc = "idle"
    /\ \E o \in {SetOp("set_key", "amp", IntV(5)),
                 SetOp("set_key", "fna", StrV("x"))} :
        Step(plain_setter(o), device_model)

set_charging_mode ==
    /\ pc = "idle"
    /\ \E value \in {IntV(0), IntV(1), IntV(2)} :
        Step(plain_setter(SetOp("set_charging_mode", "frc", value)), device_model)

set_phase_mode ==
    /\ pc = "idle"
    /\ \E value \in {IntV(0), IntV(1), IntV(2)} :
        Step(plain_setter(SetOp("set_phase_mode", "psm", value)), device_model)

set_cable_lock_mode ==
    /\ pc = "idle"
    /\ \E value \in {IntV(0), IntV(1), IntV(2)} :
        Step(plain_setter(SetOp("set_cable_lock_mode", "ust", value)), device_model)

set_charge_limit ==
    /\ pc = "idle"
    /\ \E chargeLimit \in {FloatV(5000, 1), IntV(5000), StrV("abc"), NoneV} :
        Step(charge_limit_setter(
                 SetOp("set_charge_limit", "dwo", chargeLimit)),
             device_model)

----------------------------------------------------------------------------
(* GoeCharger: all operations *)

\* a failed answer to a status request when the set operations are looked at
FewFailedReplies ==
    { Reply("ClientError", 0, "json", <<>>),
      Reply("TimeoutError", 0, "json", <<>>) }
    \cup { Reply("ok", 200, c, <<>>) :
             c \in {"ContentTypeError", "JSONDecodeError"} }
    \cup { Reply("ok", s, "json", <<>>) : s \in {404, 500, 503} }

\* the answers to a status request when the set operations are looked at:
\* a failure, an empty status, or one entry of a requested code
FewStatusReplies(filter_elements) ==
    { Reply("ok", s, "json", <<item>>) :
        s \in {200, 500},
        item \in { it \in Items :
                      \/ filter_elements = <<>>
                      \/ \E i \in 1..Len(filter_elements) :
                            filter_elements[i] = it[1] } }
    \cup { Reply("ok", 200, "json", <<>>) }
    \cup FewFailedReplies

\* get_status and the six shortcut getters
Getters ==
    { [name |-> "get_status", status_type |-> st] :
        st \in {STATUS_MINIMUM, <<"var">>} }
    \cup { [name |-> "get_ampere", status_type |-> <<"amp">>],
           [name |-> "get_charging_mode", status_type |-> <<"frc">>],
           [name |-> "get_phase_mode", status_type |-> <<"psm">>],
           [name |-> "get_absolute_max_current", status_type |-> <<"ama">>],
           [name |-> "get_cable_lock_mode", status_type |-> <<"ust">>],
           [name |-> "get_charge_limit", status_type |-> <<"dwo">>] }

getter == \E g \in Getters : StatusCall(g.name, g.status_type)

\* the GET of the operation's own request is answered: a set request, a
\* status request
client_get_returns ==
    get_returns(IF request.path = "/api/set" THEN SetReplies(request.key)
                ELSE FewStatusReplies(request.filter))

\* the client as __init__ leaves it, in front of a charger of either variant
ClientInit ==
    /\ Idle(op, request, reply, response, result, pc)
    /\ requests = <<>>
    /\ replies = <<>>
    /\ decoded = 0
    /\ device_model = ""
    /\ device \in {Charger(11), Charger(22)}

ClientNext ==
    \/ getter
    \/ set_key
    \/ set_charging_mode
    \/ set_phase_mode
    \/ set_cable_lock_mode
    \/ set_charge_limit
    \/ set_ampere
    \/ set_absolute_max_current
    \/ var_get_returns
    \/ var_json_begins
    \/ var_json_returns
    \/ device_model_assigned
    \/ ampere_sends
    \/ client_get_returns
    \/ json_begins
    \/ json_returns
    \/ Discard

\* the client with all its operations, every call step by step
ClientSpec == ClientInit /\ [][ClientNext]_vars

----------------------------------------------------------------------------
(* Properties *)

\* the call under way got a decoded body and built a mapper on it
MapperRan ==
    /\ pc = "returned"
    /\ reply.transport = "ok" /\ reply.content = "json"
    /\ reply.status \in {200, 500}

\* translate succeeded: the caller holds a translated mapping
Succeeded == MapperRan /\ result.raised = ""

\* the field code dictionary: the key an entry of this code is emitted under
FieldName(code) == __map_element(<<code, NoneV>>).name

\* no other entry of the raw response is emitted under the key of entry i
NoClash(i) ==
    \A j \in 1..Len(response) :
        j # i => FieldName(response[j][1]) # FieldName(response[i][1])

\* C1 as stated: the output entries are in ascending order of the ORIGINAL
\* field codes they come from.
C1_OrderedByOriginalCode ==
    Succeeded =>
        \A i, j \in 1..Len(result.value) :
            i < j =>
                \E a, b \in 1..Len(response) :
                    /\ FieldName(response[a][1]) = result.value[i][1]
                    /\ FieldName(response[b][1]) = result.value[j][1]
                    /\ StrLess(response[a][1], response[b][1])

\* C1 amended: the output entries are in strictly ascending order of the
\* keys they are emitted under (the renamed semantic names).
C1_OrderedByEmittedKey ==
    Succeeded =>
        \A i, j \in 1..Len(result.value) :
            i < j => StrLess(result.value[i][1], result.value[j][1])

\* C1 witness: {car, err, frc} is emitted as car_state, charging_mode, error
C1_Witness ==
    /\ Succeeded
    /\ Keys(response) = <<"car", "err", "frc">>
    /\ Keys(result.value) = <<"car_state", "charging_mode", "error">>

\* C2 as stated: on success the output holds exactly one entry per input
\* entry.
C2_OneEntryPerInput ==
    Succeeded => Len(result.value) = Len(response)

\* C3 as stated: every input entry whose code has no dispatch rule is in the
\* output under the same code with the identical value.
C3_UnknownPassThrough ==
    Succeeded =>
        \A i \in 1..Len(response) :
            response[i][1] \notin KnownCodes =>
                /\ HasKey(result.value, response[i][1])
                /\ DictGet(result.value, response[i][1]) = response[i][2]

\* the entries of a raw response whose code has a dispatch rule
KnownPart(d) == SelectSeq(d, LAMBDA e : e[1] \in KnownCodes)

\* C4: if translate succeeds on the entries with a dispatch rule alone, it
\* succeeds on the response extended with entries whose codes have none.
C4_UnknownCodesNeverFail ==
    MapperRan =>
        (map_status_response(KnownPart(response)).outcome.raised = ""
            => result.raised = "")

\* C4 witness: a response with two codes without a rule, one of them a
\* semantic name, besides a known one, is translated
C4_Witness ==
    /\ Succeeded
    /\ KeySet(response) = {"car", "fna", "error"}

\* the raw values each enum field documents
EnumDomain(code) ==
    CASE code = "car" -> 0..5
      [] code = "err" -> (0..16) \cup (20..24)
      [] code = "frc" -> 0..2
      [] code = "psm" -> 0..2
      [] code = "ust" -> 0..2
      [] code = "var" -> {11, 22}

EnumTable(code) ==
    CASE code = "car" -> __mappings_car
      [] code = "err" -> __mappings_err
      [] code = "frc" -> __mappings_frc
      [] code = "psm" -> __mappings_psm
      [] code = "ust" -> __mappings_ust
      [] code = "var" -> __mappings_var

\* C5: an enum field whose raw value is in its table is emitted with the
\* table's label; with an int, str or null raw value outside the table,
\* translate raises (KeyError, a lookup error, when the field is the only
\* entry) and the raw value is never emitted.
C5_EnumDomain ==
    MapperRan =>
        \A i \in 1..Len(response) :
            LET c == response[i][1]
                x == response[i][2]
            IN  (c \in EnumCodes /\ x.t \in {"int", "str", "none"}) =>
                    IF x.t = "int" /\ x.v \in EnumDomain(c)
                    THEN /\ Len(response) = 1 => result.raised = ""
                         /\ (result.raised = "" /\ NoClash(i)) =>
                               DictGet(result.value, FieldName(c))
                                   = EnumTable(c)[x.v]
                    ELSE /\ result.raised # ""
                         /\ Len(response) = 1 => result.raised = "KeyError"

\* C5 witness: car 2 is in its table, err 17 is not: the lookup of err raises
C5_Witness ==
    /\ MapperRan
    /\ response = << <<"car", IntV(2)>>, <<"err", IntV(17)>> >>
    /\ result.raised = "KeyError"

\* C6: the translated error is null if and only if the raw err value is 0.
C6_ErrorNullIffZero ==
    Succeeded =>
        \A i \in 1..Len(response) :
            (response[i][1] = "err" /\ NoClash(i)) =>
                (DictGet(result.value, "error") = NoneV
                    <=> response[i][2] = IntV(0))

\* C6 witness: err 0 alone is emitted as error: null
C6_Witness ==
    /\ Succeeded
    /\ response = << <<"err", IntV(0)>> >>
    /\ result.value = << <<"error", NoneV>> >>

\* the structure C7 states for the readings v (v[1] is the array's index 0)
EnergyOf(v) ==
    DictV([voltage |-> [L1 |-> v[1], L2 |-> v[2], L3 |-> v[3], N |-> v[4]],
           current |-> [L1 |-> v[5], L2 |-> v[6], L3 |-> v[7]],
           power |-> [L1 |-> v[8], L2 |-> v[9], L3 |-> v[10], N |-> v[11],
                      total |-> v[12]],
           power_factor |-> [L1 |-> v[13], L2 |-> v[14], L3 |-> v[15]]])

\* C7: a 15-element nrg array is emitted under "energy" as the nested
\* voltage / current / power / power_factor structure, every index used once
\* and no value altered; alone in the response it always translates.
C7_EnergyStructure ==
    MapperRan =>
        \A i \in 1..Len(response) :
            LET x == response[i][2]
            IN  (response[i][1] = "nrg" /\ x.t = "list" /\ Len(x.v) = 15) =>
                    /\ Len(response) = 1 => result.raised = ""
                    /\ result.raised = "" =>
                          /\ HasKey(result.value, "energy")
                          /\ DictGet(result.value, "energy") = EnergyOf(x.v)

\* C7 witness: the 15 readings 230 .. 244 alone are translated
C7_Witness ==
    /\ Succeeded
    /\ response = << <<"nrg", ListV(Ramp(15, 230))>> >>
    /\ HasKey(result.value, "energy")

\* C8 as stated: an nrg array of any length other than 15 makes translate
\* fail.
C8_WrongLengthFails ==
    MapperRan =>
        \A i \in 1..Len(response) :
            LET x == response[i][2]
            IN  (response[i][1] = "nrg" /\ x.t = "list" /\ Len(x.v) # 15) =>
                    result.raised # ""

\* C8 amended: an nrg array shorter than 15 makes translate fail (with
\* IndexError when it is the only entry); a longer one is accepted, its
\* first 15 elements are emitted and the rest are ignored.
C8_ShortFailsLongIsCut ==
    MapperRan =>
        \A i \in 1..Len(response) :
            LET x == response[i][2]
            IN  (response[i][1] = "nrg" /\ x.t = "list") =>
                    /\ Len(x.v) < 15 =>
                          /\ result.raised # ""
                          /\ Len(response) = 1 => result.raised = "IndexError"
                    /\ Len(x.v) > 15 =>
                          /\ Len(response) = 1 => result.raised = ""
                          /\ result.raised = "" =>
                                DictGet(result.value, "energy")
                                    = EnergyOf(SubSeq(x.v, 1, 15))

\* C8 witness: an array of 16 readings is translated
C8_Witness ==
    /\ Succeeded
    /\ Len(response) = 1
    /\ response[1][1] = "nrg"
    /\ response[1][2].t = "list"
    /\ Len(response[1][2].v) = 16

\* the sum of the readings q[1] .. q[n]
RECURSIVE Total(_, _)
Total(q, n) == IF n = 0 THEN 0 ELSE Total(q, n - 1) + q[n]

\* C9: a non-empty tma array is emitted under "temperature" as its
\* arithmetic mean; an empty one as null, with no fault and not as 0.
C9_TemperatureMean ==
    MapperRan =>
        \A i \in 1..Len(response) :
            LET x == response[i][2]
            IN  (response[i][1] = "tma" /\ x.t = "list") =>
                    /\ Len(response) = 1 => result.raised = ""
                    /\ result.raised = "" =>
                          LET out == DictGet(result.value, "temperature")
                          IN  IF Len(x.v) = 0 THEN out = NoneV
                              ELSE /\ out.t = "float"
                                   /\ out.v[2] > 0
                                   /\ out.v[1] * Len(x.v)
                                        = out.v[2] * Total(x.v, Len(x.v))

\* C9 witness: the empty array is emitted as temperature: null
C9_Witness ==
    /\ Succeeded
    /\ response = << <<"tma", ListV(<<>>)>> >>
    /\ result.value = << <<"temperature", NoneV>> >>

\* C10: when any entry of the raw response fails to translate, the
\* status-retrieval operation raises and returns no mapping; the raw
\* response is the body received, unmodified, whether it raises or not.
C10_AllOrNothing ==
    MapperRan =>
        /\ (\E i \in 1..Len(response) : __map_element(response[i]).raised # "")
              => (result.raised # "" /\ result.value = <<>>)
        /\ response = reply.body

\* C10 witness: car and frc translate, err 17 does not: get_status raises
C10_Witness ==
    /\ MapperRan
    /\ op.name = "get_status"
    /\ response = << <<"car", IntV(2)>>, <<"err", IntV(17)>>,
                     <<"frc", IntV(1)>> >>
    /\ result = Raise("KeyError")

\* the reorderings of a dict: the same entries in every insertion order
Reorderings(d) ==
    { [i \in 1..Len(d) |-> d[p[i]]] :
        p \in { q \in [1..Len(d) -> 1..Len(d)] :
                  \A i, j \in 1..Len(d) : i # j => q[i] # q[j] } }

\* C11: a raw response of known, in-domain fields is translated to the same
\* output, with the same key order, whatever the insertion order of its
\* entries.
C11_OrderIndependent ==
    (Succeeded /\ KeySet(response) \subseteq KnownCodes) =>
        \A d \in Reorderings(response) :
            map_status_response(d).outcome = result

\* C11 witness: {var, acu, car} in this order is emitted as ampere,
\* car_state, device_model
C11_Witness ==
    /\ Succeeded
    /\ Keys(response) = <<"var", "acu", "car">>
    /\ Keys(result.value) = <<"ampere", "car_state", "device_model">>

\* C18: on a raw response with neither "dwo" nor "ust" the two package
\* variants of the translator both fail or both succeed with the same
\* mapping in the same key order; "dwo" and "ust" are passed through
\* unchanged by goecharger.py and emitted as charge_limit and
\* cable_lock_mode by goecharger_api_lite.py.
C18_VariantsAgree ==
    MapperRan =>
        LET other == goecharger_map_status_response(response).outcome
        IN  /\ ({"dwo", "ust"} \cap KeySet(response) = {}) =>
                  /\ (other.raised = "") <=> (result.raised = "")
                  /\ other.value = result.value
            /\ \A i \in 1..Len(response) :
                  response[i][1] \in {"dwo", "ust"} =>
                      /\ goecharger_map_element(response[i])
                            = Mapped(response[i][1], Return(response[i][2]))
                      /\ __map_element(response[i]).name
                            = (IF response[i][1] = "dwo" THEN "charge_limit"
                               ELSE "cable_lock_mode")
                      /\ (Len(response) = 1 /\ result.raised = "") =>
                            /\ other.raised = ""
                            /\ other.value # result.value

\* C18 witness: acu, amp and car are translated alike by both variants
C18_Witness ==
    /\ Succeeded
    /\ Keys(response) = <<"amp", "car", "acu">>
    /\ goecharger_map_status_response(response).outcome = result

----------------------------------------------------------------------------
(* Properties of the set operations and of the requests *)

GetterNames ==
    {"get_status", "get_ampere", "get_charging_mode", "get_phase_mode",
     "get_absolute_max_current", "get_cable_lock_mode", "get_charge_limit"}

AmpereSetters == {"set_ampere", "set_absolute_max_current"}

\* a call of a status operation has returned
GetterRan == pc = "returned" /\ op.name \in GetterNames

\* a call of a set operation has returned
SetterRan == pc = "returned" /\ op.name \notin GetterNames

\* the indices of the call's requests to /api/set
SetRequests == {i \in 1..Len(requests) : requests[i].path = "/api/set"}

\* the call's last request was a set request and response.json() has
\* decoded its answer (like that of the status request before it, if any)
Decoded ==
    /\ requests # <<>>
    /\ request.path = "/api/set"
    /\ decoded = Len(requests)

\* the decoded answer to the set request holds the key with the bool true
Echoed ==
    /\ Decoded
    /\ reply.body.t = "dict"
    /\ HasKey(reply.body.v, op.key)
    /\ DictGet(reply.body.v, op.key) = BoolV(TRUE)

\* C12: a set operation returns without error if and only if the decoded
\* answer to its set request holds the key with the boolean true; for every
\* other decoded answer it raises GoeChargerError.
C12_SucceedsIffEchoedTrue ==
    SetterRan =>
        /\ (result.raised = "") <=> Echoed
        /\ (Decoded /\ ~Echoed) => result.raised = "GoeChargerError"

\* the argument of set_ampere / set_absolute_max_current is an int or
\* converts to one
Converts(value) ==
    value.t = "int" \/ (value.t = "str" /\ value.v \in DOMAIN IntOfStr)

AmpereOf(value) == IF value.t = "int" THEN value.v ELSE IntOfStr[value.v]

\* the call began with a status request for "var"
AskedModel ==
    /\ requests # <<>>
    /\ requests[1] = __create_status_request(<<"var">>)

\* C13 as stated: every call of set_ampere / set_absolute_max_current that
\* gets as far as its set request has asked the device for its model.
C13_ModelAskedOnEveryCall ==
    (SetterRan /\ op.name \in AmpereSetters /\ SetRequests # {}) =>
        AskedModel

\* C13 amended: the client keeps nothing between operations but the device
\* model.  A call of set_ampere or set_absolute_max_current whose value is
\* an int or converts to one asks the device for its model exactly when none
\* is remembered; a call whose value does not convert ends before any
\* request.  __device_model is written only by such a call, with the model
\* the device gave it, and a remembered model never changes.  What a call
\* requests besides is what its arguments say, and what it returns or raises
\* after its own request is what the answer to that request says.
C13_ModelRememberedOnce ==
    [][ /\ device_model # "" => device_model' = device_model
        /\ device_model' # device_model =>
              /\ pc = "var_answered" /\ pc' = "known"
              /\ op.name \in AmpereSetters
              /\ AskedModel
              /\ device_model' = var_device_model(replies[1]).value
              /\ device_model' = __mappings_var[device.var].v
        /\ (pc = "idle" /\ pc' # "idle" /\ op'.name \in AmpereSetters) =>
              IF Converts(op'.value)
              THEN AskedModel' <=> (device_model = "")
              ELSE pc' = "returned" /\ requests' = <<>>
        /\ (pc # "idle" /\ pc' # "idle") =>
              (AskedModel' <=> AskedModel)
        /\ (pc' # "idle" /\ op'.name \in GetterNames) =>
              requests' = <<__create_status_request(op'.status_type)>>
        /\ (pc' = "returned" /\ op'.name \in GetterNames) =>
              result' = __get_status(reply').outcome
        /\ (pc' = "returned" /\ op'.name \notin GetterNames
              /\ SetRequests' # {}) =>
              result' = __set_key(op'.key, reply') ]_vars

\* C13 witness: a set_ampere call that sends its set request without asking
\* for the model, which an earlier call has left behind
C13_Witness ==
    /\ SetterRan
    /\ op.name = "set_ampere"
    /\ device_model = "22KW/32A"
    /\ Len(requests) = 1
    /\ requests[1].path = "/api/set"

\* C14: on an 11 kW charger, a call of set_ampere(v) or
\* set_absolute_max_current(v) with v > 16 sends no set request and at most
\* one status request for "var", and the charger's amp and ama stay as they
\* are.  With the charger's report of its model in hand, remembered or
\* obtained by this call, the call raises GoeChargerError; without (the
\* status request failed or its answer names no known variant) it raises
\* what get_status("var")["device_model"] raised.
C14_TooBigFor11kW ==
    [][ ( /\ pc' # "idle"
          /\ op'.name \in AmpereSetters
          /\ Converts(op'.value)
          /\ AmpereOf(op'.value) > 16
          /\ device.var = 11 ) =>
            /\ SetRequests' = {}
            /\ Len(requests') <= 1
            /\ requests' # <<>> => AskedModel'
            /\ device' = device
            /\ (pc' = "returned" /\ device_model' = "11KW/16A") =>
                  result' = Raise("GoeChargerError")
            /\ (pc' = "returned" /\ device_model' # "11KW/16A") =>
                  /\ AskedModel'
                  /\ result' = var_device_model(replies'[1])
                  /\ result'.raised # ""
      ]_vars

\* C14 witness: set_absolute_max_current(17) is refused on the remembered
\* model of an 11 kW charger, without any request
C14_Witness ==
    /\ SetterRan
    /\ op.name = "set_absolute_max_current"
    /\ op.value = IntV(17)
    /\ device.var = 11
    /\ device_model = "11KW/16A"
    /\ requests = <<>>
    /\ result = Raise("GoeChargerError")
    /\ device = Charger(11)

\* C15: set_ampere sends a set request only for a value between 6 and the
\* maximum of the charger (16 on an 11 kW, 32 on a 22 kW charger).
C15_AmpereWithinRange ==
    (SetterRan /\ op.name = "set_ampere" /\ SetRequests # {}) =>
        /\ request.value.t = "json_int"
        /\ 6 <= request.value.v
        /\ request.value.v <= (IF device.var = 11 THEN 16 ELSE 32)

\* C16: a status operation raises (GoeChargerError) when the device answers
\* its request with HTTP 500 or any other HTTP error status: it does not
\* return a result.
C16_StatusRequestRaisesOnHttpError ==
    (GetterRan /\ reply.transport = "ok" /\ reply.status >= 400) =>
        result.raised # ""

\* request i of the call failed: transport, HTTP status or decoding
RequestFailed(i) ==
    __send_request(replies[i], requests[i].path = "/api/set").raised # ""

\* C17 as stated: every call of a set operation sends exactly one request to
\* /api/set.
C17_EverySetterSendsOneSet ==
    SetterRan => Cardinality(SetRequests) = 1

\* C17 amended: no request is sent twice.  A status operation sends exactly
\* one GET.  A set operation sends at most one set request, as its last
\* request, preceded by at most one status request for "var", and that only
\* in set_ampere / set_absolute_max_current; it sends no set request only
\* when it raises before (argument refused, model not obtained, value too
\* big for the model).  A request that fails is the last of its call, and
\* the call raises.
C17_NoRetry ==
    /\ Len(requests) <= 2
    /\ Len(replies) <= Len(requests)
    /\ Cardinality(SetRequests) <= 1
    /\ GetterRan =>
          requests = <<__create_status_request(op.status_type)>>
    /\ SetterRan =>
          /\ Cardinality(SetRequests) <= 1
          /\ SetRequests \subseteq {Len(requests)}
          /\ Len(requests) <= 2
          /\ \A i \in 1..Len(requests) :
                i \notin SetRequests =>
                    /\ i = 1
                    /\ AskedModel
                    /\ op.name \in AmpereSetters
          /\ SetRequests = {} => result.raised # ""
          /\ SetRequests # {} =>
                request = __create_key_set_request(op.key,
                              IF op.name = "set_charge_limit"
                                 /\ op.value.t = "int"
                              THEN FloatV(op.value.v, 1)
                              ELSE IF op.value.t = "str"
                                      /\ op.name \in AmpereSetters
                              THEN IntV(IntOfStr[op.value.v])
                              ELSE op.value)
    /\ pc = "returned" =>
          /\ Len(replies) = Len(requests)
          /\ \A i \in 1..Len(requests) :
                RequestFailed(i) => (i = Len(requests) /\ result.raised # "")

\* C17 witness: set_ampere asks for the model, the set request that follows
\* fails with HTTP 404, and the call ends in GoeChargerError after these two
\* requests
C17_Witness ==
    /\ SetterRan
    /\ op.name = "set_ampere"
    /\ Len(requests) = 2
    /\ AskedModel
    /\ request.path = "/api/set"
    /\ reply.status = 404
    /\ RequestFailed(2)
    /\ result = Raise("GoeChargerError")

====
